---------------------------- MODULE Spec2Model ----------------------------
(***************************************************************************)
(* A model of MathExpressions::Evaluate (MathExpressions.cpp): the token   *)
(* factories, the pair matching of brackets, functions and modulus bars,   *)
(* the split rules of every token family and the evaluation rules.  The    *)
(* generic engine (Parser::Engine::Tokenize / Parse, Parser/Parser.hpp) is *)
(* a separate library; its loops are written from the design document.     *)
(*                                                                         *)
(* Text is a sequence of one-character strings, offsets are 0-based as in  *)
(* the C++ code, a slice [b, e) is a pair of offsets into the token        *)
(* vector.  long double values are modelled by exact rationals; results of *)
(* transcendental functions are uninterpreted terms.                       *)
(***************************************************************************)
EXTENDS Integers, Naturals, Sequences, FiniteSets, TLC

VARIABLES
  expression,  \* the text handed to Evaluate
  env,         \* the Environment handed to Evaluate
  pc,          \* the phase Evaluate is in
  cursor,      \* the tokenizer's cursor into the text
  out_tokens,  \* the token vector
  cur_token,   \* the position the backpatch pass has reached
  PairCache,   \* the PairCache entry of every token for out_tokens
  out_ast,     \* the root node of the tree (NoTree: Root is null)
  result,      \* what Evaluate returned or threw
  thrown_in,   \* the phase that threw
  history      \* the calls of Evaluate made before this one

vars == <<expression, env, pc, cursor, out_tokens, cur_token, PairCache, out_ast,
          result, thrown_in, history>>

(***************************************************************************)
(* Bounds of the model                                                     *)
(***************************************************************************)
\* operand values bound to variables range over -MaxVal .. MaxVal
MaxVal == 2
\* length of the exhaustively enumerated short texts
MaxLen == 3
\* number of successive calls of Evaluate
MaxCalls == 2

(***************************************************************************)
(* Characters                                                              *)
(***************************************************************************)
Digits == {"0", "1", "2", "3", "4", "5", "6", "7", "8", "9"}

Letters == {"a", "b", "c", "d", "e", "f", "g", "h", "i", "j", "k", "l", "m",
            "n", "o", "p", "q", "r", "s", "t", "u", "v", "w", "x", "y", "z"}

Blanks == {" ", "\t"}

DigitVal(ch) ==
  CASE ch = "0" -> 0 [] ch = "1" -> 1 [] ch = "2" -> 2 [] ch = "3" -> 3
    [] ch = "4" -> 4 [] ch = "5" -> 5 [] ch = "6" -> 6 [] ch = "7" -> 7
    [] ch = "8" -> 8 [] ch = "9" -> 9

\* in_expr[cursor] of a std::string: the terminating NUL is readable at size()
CharAt(in_expr, c) == IF c < Len(in_expr) THEN in_expr[c + 1] ELSE "NUL"

\* std::string(Source.Start, Source.End)
SourceText(in_expr, tok) == SubSeq(in_expr, tok.start + 1, tok.end)

(***************************************************************************)
(* long double, modelled as exact rationals [n, d] in lowest terms, and    *)
(* uninterpreted terms [fn, args] for what has no rational value           *)
(***************************************************************************)
Abs(i) == IF i < 0 THEN -i ELSE i

RECURSIVE GCD(_, _)
GCD(a, b) == IF b = 0 THEN a ELSE GCD(b, a % b)

Rat(n, d) ==
  LET g == GCD(Abs(n), Abs(d))
      s == IF d < 0 THEN -1 ELSE 1
  IN  [n |-> (s * n) \div g, d |-> (s * d) \div g]

IntVal(i) == [n |-> i, d |-> 1]

IsRat(v) == "n" \in DOMAIN v

Term(fn, args) == [fn |-> fn, args |-> args]

\* x == 0, x < 0, x < 1 on a long double: decided for the rationals and for
\* the terms whose sign is known, undefined for the others
IsZero(v) ==
  CASE IsRat(v) -> v.n = 0
    [] ~IsRat(v) /\ v.fn \in {"M_PI", "M_E", "expl", "inf"} -> FALSE

IsNegative(v) ==
  CASE IsRat(v) -> v.n < 0
    [] ~IsRat(v) /\ v.fn \in {"M_PI", "M_E", "powl", "sqrtl", "expl", "fabsl", "inf"} -> FALSE

LessThanOne(v) ==
  CASE IsRat(v) -> v.n < v.d
    [] ~IsRat(v) /\ v.fn \in {"M_PI", "M_E", "inf"} -> FALSE

\* 0 + y is y and 1 * y is y in floating point as well
FAdd(x, y) ==
  IF IsRat(x) /\ IsRat(y) THEN Rat(x.n * y.d + y.n * x.d, x.d * y.d)
  ELSE IF IsRat(x) /\ x.n = 0 THEN y
  ELSE Term("add", <<x, y>>)

FSub(x, y) ==
  IF IsRat(x) /\ IsRat(y) THEN Rat(x.n * y.d - y.n * x.d, x.d * y.d)
  ELSE Term("sub", <<x, y>>)

FMul(x, y) ==
  IF IsRat(x) /\ IsRat(y) THEN Rat(x.n * y.n, x.d * y.d)
  ELSE IF IsRat(x) /\ x = IntVal(1) THEN y
  ELSE Term("mul", <<x, y>>)

\* only used with y # 0
FDiv(x, y) ==
  IF IsRat(x) /\ IsRat(y) THEN Rat(x.n * y.d, x.d * y.n)
  ELSE Term("div", <<x, y>>)

FNeg(x) == IF IsRat(x) THEN Rat(-x.n, x.d) ELSE Term("neg", <<x>>)

FAbs(x) == IF IsRat(x) THEN Rat(Abs(x.n), x.d) ELSE Term("fabsl", <<x>>)

RECURSIVE IntPow(_, _)
IntPow(b, k) == IF k = 0 THEN 1 ELSE b * IntPow(b, k - 1)

\* powl(x, y): exact for an integral exponent, a term otherwise
Powl(x, y) ==
  IF IsRat(x) /\ IsRat(y) /\ y.d = 1
  THEN IF y.n >= 0 THEN Rat(IntPow(x.n, y.n), IntPow(x.d, y.n))
       ELSE IF x.n = 0 THEN Term("inf", <<>>)
       ELSE Rat(IntPow(x.d, -y.n), IntPow(x.n, -y.n))
  ELSE Term("powl", <<x, y>>)


(***************************************************************************)
(* Tokens: [kind, variant, start, end]; Source is the span [start, end) of *)
(* the expression text.  variant is DistinctPair::Variant (TRUE: closing). *)
(***************************************************************************)
NumericKinds == {"Number", "Pythagorean", "ExponentConst", "Variable"}

BinaryOpKinds == {"Add", "Sub", "Mul", "Div", "Pow"}

UnaryFunctionKinds ==
  {"LogarithmE", "Logarithm2", "Logarithm10", "ExponentFunc", "SquareRoot",
   "Sign", "Sine", "Cosine", "Tangent", "Cotangent", "Arcsine", "Arccosine",
   "Arctangent", "HyperbolicSine", "HyperbolicCosine", "HyperbolicTangent",
   "HyperbolicArcsine", "HyperbolicArccosine", "HyperbolicArctangent"}

ArgumentedFunctionKinds == {"Logarithm"}

FunctionKinds == UnaryFunctionKinds \cup ArgumentedFunctionKinds

DistinctPairKinds == {"Bracket"} \cup FunctionKinds

IndistinctPairKinds == {"ModBracket"}

PairKinds == DistinctPairKinds \cup IndistinctPairKinds

\* classes derived from MathExpressions::Token; ParamSeparator is not one
MathTokenKinds == NumericKinds \cup BinaryOpKinds \cup PairKinds

MkToken(kind, variant, start, end) ==
  [kind |-> kind, variant |-> variant, start |-> start, end |-> end]

\* a factory's outcome: the token (or none), the cursor it leaves, a thrown error
NoToken == [kind |-> "none"]

Made(tok, c) == [tok |-> tok, cursor |-> c, err |-> "none"]

NoMatch(c) == [tok |-> NoToken, cursor |-> c, err |-> "none"]

Thrown(e, c) == [tok |-> NoToken, cursor |-> c, err |-> e]

(***************************************************************************)
(* Token factories                                                         *)
(***************************************************************************)
\* the do-while loop of MET_NumberFactory: returns the cursor after the loop
\* (before the final cursor--) or the position of a second decimal point
RECURSIVE NumberScan(_, _, _)
NumberScan(in_expr, c, num_dec) ==
  LET ch == CharAt(in_expr, c)
  IN  IF ch = "." /\ num_dec THEN [err |-> TRUE, cursor |-> c]
      ELSE IF (ch \in Digits \/ ch = ".") /\ c + 1 <= Len(in_expr)
           THEN NumberScan(in_expr, c + 1, num_dec \/ ch = ".")
           ELSE [err |-> FALSE, cursor |-> c + 1]

\* a factory that reports the start of the literal
MET_NumberFactory_ReportsStart(in_expr, c) ==
  LET r == NumberScan(in_expr, c, FALSE)
  IN  IF r.err THEN Thrown("IncorrectlyFormedNumber", c)
      ELSE IF r.cursor - 1 = c THEN NoMatch(c)
      ELSE Made(MkToken("Number", FALSE, c, r.cursor - 1), r.cursor - 1)

MET_NumberFactory(in_expr, c) ==
  LET r == NumberScan(in_expr, c, FALSE)
  IN  IF r.err THEN Thrown("IncorrectlyFormedNumber", r.cursor)
      ELSE IF r.cursor - 1 = c THEN NoMatch(c)
      ELSE Made(MkToken("Number", FALSE, c, r.cursor - 1), r.cursor - 1)

TokenFromCharacter(kind, in_expr, c, ch) ==
  IF CharAt(in_expr, c) = ch
  THEN Made(MkToken(kind, FALSE, c, c + 1), c + 1)
  ELSE NoMatch(c)

\* number of leading characters of 'from' found at the cursor
RECURSIVE MatchedPrefix(_, _, _, _)
MatchedPrefix(in_expr, c, from, k) ==
  IF k = Len(from) \/ CharAt(in_expr, c + k) # from[k + 1] THEN k
  ELSE MatchedPrefix(in_expr, c, from, k + 1)

\* the cursor is advanced over every matched character and is not put back
\* when the comparison fails
TokenFromString(kind, in_expr, c, from) ==
  IF c + Len(from) > Len(in_expr) THEN NoMatch(c)
  ELSE LET k == MatchedPrefix(in_expr, c, from, 0)
       IN  IF k = Len(from) THEN Made(MkToken(kind, FALSE, c, c + k), c + k)
           ELSE NoMatch(c + k)

RECURSIVE TokenFromEitherStrings(_, _, _, _)
TokenFromEitherStrings(kind, in_expr, c, from_strings) ==
  IF from_strings = <<>> THEN NoMatch(c)
  ELSE LET r == TokenFromString(kind, in_expr, c, Head(from_strings))
       IN  IF r.tok # NoToken THEN r
           ELSE TokenFromEitherStrings(kind, in_expr, r.cursor, Tail(from_strings))

RECURSIVE TokenFromEitherChars(_, _, _, _)
TokenFromEitherChars(kind, in_expr, c, from_chars) ==
  IF from_chars = <<>> THEN NoMatch(c)
  ELSE LET r == TokenFromCharacter(kind, in_expr, c, Head(from_chars))
       IN  IF r.tok # NoToken THEN r
           ELSE TokenFromEitherChars(kind, in_expr, c, Tail(from_chars))

MET_BracketFactory(in_expr, c) ==
  IF CharAt(in_expr, c) = "(" THEN Made(MkToken("Bracket", FALSE, c, c + 1), c + 1)
  ELSE IF CharAt(in_expr, c) = ")" THEN Made(MkToken("Bracket", TRUE, c, c + 1), c + 1)
  ELSE NoMatch(c)

RECURSIVE AlphaEnd(_, _)
AlphaEnd(in_expr, c) ==
  IF c < Len(in_expr) /\ CharAt(in_expr, c) \in Letters THEN AlphaEnd(in_expr, c + 1)
  ELSE c

MET_VariableFactory(in_expr, c) ==
  LET e == AlphaEnd(in_expr, c)
  IN  IF e # c THEN Made(MkToken("Variable", FALSE, c, e), e) ELSE NoMatch(c)

RECURSIVE BlankEnd(_, _)
BlankEnd(in_expr, c) ==
  IF CharAt(in_expr, c) \in Blanks THEN BlankEnd(in_expr, c + 1) ELSE c

MET_WhitespaceFactory(in_expr, c) == NoMatch(BlankEnd(in_expr, c))

\* the spellings handed to TokenFromString / TokenFromEitherStrings by the
\* MET_<kind>Factory functions, and the class each of them instantiates
Name(kind, made, spellings) == [fn |-> "Strings", kind |-> kind, made |-> made, from |-> spellings]

FunctionFactories ==
  << Name("LogarithmE", "LogarithmE", << <<"l", "n", "(">> >>),
     Name("Logarithm2", "Logarithm2", << <<"l", "o", "g", "2", "(">> >>),
     Name("Logarithm10", "Logarithm10", << <<"l", "o", "g", "1", "0", "(">> >>),
     Name("Logarithm", "Logarithm", << <<"l", "o", "g", "(">> >>),
     Name("ExponentFunc", "ExponentFunc", << <<"e", "x", "p", "(">> >>),
     Name("SquareRoot", "SquareRoot", << <<"s", "q", "r", "t", "(">> >>),
     Name("Sign", "Sign", << <<"s", "i", "g", "n", "(">> >>),
     Name("Sine", "Sine", << <<"s", "i", "n", "(">> >>),
     Name("Cosine", "Cosine", << <<"c", "o", "s", "(">> >>),
     Name("Tangent", "Tangent", << <<"t", "g", "(">>, <<"t", "a", "n", "(">> >>),
     Name("Cotangent", "Cotangent", << <<"c", "t", "g", "(">>, <<"c", "t", "a", "n", "(">> >>),
     Name("Arcsine", "Arcsine",
          << <<"a", "s", "i", "n", "(">>, <<"a", "r", "c", "s", "i", "n", "(">> >>),
     Name("Arccosine", "Arccosine",
          << <<"a", "c", "o", "s", "(">>, <<"a", "r", "c", "c", "o", "s", "(">> >>),
     Name("Arctangent", "Arctangent",
          << <<"a", "t", "g", "(">>, <<"a", "t", "a", "n", "(">>,
             <<"a", "r", "c", "t", "g", "(">>, <<"a", "r", "c", "t", "a", "n", "(">> >>),
     Name("HyperbolicSine", "HyperbolicSine", << <<"s", "i", "n", "h", "(">> >>),
     Name("HyperbolicCosine", "HyperbolicCosine", << <<"c", "o", "s", "h", "(">> >>),
     Name("HyperbolicTangent", "HyperbolicTangent",
          << <<"t", "g", "h", "(">>, <<"t", "a", "n", "h", "(">> >>),
     Name("HyperbolicArcsine", "HyperbolicArcsine",
          << <<"a", "s", "i", "n", "h", "(">>, <<"a", "r", "c", "s", "i", "n", "h", "(">> >>),
     Name("HyperbolicArccosine", "HyperbolicArccosine",
          << <<"a", "c", "o", "s", "h", "(">>, <<"a", "r", "c", "c", "o", "s", "h", "(">> >>),
     \* MET_HyperbolicArctangentFactory instantiates HyperbolicTangent
     Name("HyperbolicArctangent", "HyperbolicTangent",
          << <<"a", "t", "g", "h", "(">>, <<"a", "t", "a", "n", "h", "(">>,
             <<"a", "r", "c", "t", "g", "h", "(">>,
             <<"a", "r", "c", "t", "a", "n", "h", "(">> >>) >>

Single(fn) == [fn |-> fn, kind |-> "none", made |-> "none", from |-> <<>>]

Chars(kind, chars) == [fn |-> "Chars", kind |-> kind, made |-> kind, from |-> chars]

\* the ordered list of factories
GetTokenFactories ==
  << Single("Whitespace"), Single("Bracket"), Chars("ModBracket", <<"|">>),
     Chars("Add", <<"+">>), Chars("Sub", <<"-">>), Chars("Mul", <<"*">>),
     Chars("Div", <<"/">>), Chars("Pow", <<"^">>) >>
  \o FunctionFactories
  \o << Chars("ParamSeparator", <<",", ";">>), Single("Number"),
        Name("Pythagorean", "Pythagorean", << <<"p", "i">> >>),
        Chars("ExponentConst", <<"e">>), Single("Variable") >>

\* a call of one factory of the list
CallFactory(f, in_expr, c) ==
  CASE f.fn = "Whitespace" -> MET_WhitespaceFactory(in_expr, c)
    [] f.fn = "Bracket" -> MET_BracketFactory(in_expr, c)
    [] f.fn = "Number" -> MET_NumberFactory(in_expr, c)
    [] f.fn = "Variable" -> MET_VariableFactory(in_expr, c)
    [] f.fn = "Chars" -> TokenFromEitherChars(f.made, in_expr, c, f.from)
    [] f.fn = "Strings" -> TokenFromEitherStrings(f.made, in_expr, c, f.from)

(***************************************************************************)
(* Outcomes of the operations that may throw.  A position is 0-based:      *)
(* token p of a vector is tokens[p + 1].                                   *)
(***************************************************************************)
At(tokens, p) == tokens[p + 1]

Found(p) == [err |-> "none", pos |-> p]

\* a ParsingError carrying the erroneous token; cur / exp are the two counts
\* of UnexpectedSubexpressionCount, sym the name of UnresolvedSymbol
Error(kind, p, cur, exp, sym) ==
  [err |-> kind, tok |-> p, cur |-> cur, exp |-> exp, sym |-> sym]

NoMatchingToken(p) == Error("NoMatchingToken", p, 0, 0, <<>>)

\* UnexpectedSubexpressionCount(token, cur_count, exp_count)
UnexpectedSubexpressionCount(p, cur_count, exp_count) ==
  Error("UnexpectedSubexpressionCount", p, cur_count, exp_count, <<>>)

WrongTokenType(p) == Error("WrongTokenType", p, 0, 0, <<>>)

DivisionByZero(p) == Error("DivisionByZero", p, 0, 0, <<>>)

NegativeNumberRoot(p) == Error("NegativeNumberRoot", p, 0, 0, <<>>)

UnresolvedSymbol(p, name) == Error("UnresolvedSymbol", p, 0, 0, name)

UnexpectedSeparator(p) == Error("UnexpectedSeparator", p, 0, 0, <<>>)

\* an iterator moved past the end of the vector and dereferenced
OutOfRange == Error("UndefinedBehaviour", -1, 0, 0, <<>>)

(***************************************************************************)
(* Pair matching.  cache[p] is the entry of token p's PairCache for the    *)
(* token vector of this call, NoEntry when there is none.                  *)
(***************************************************************************)
NoEntry == -1

\* Bracket::IsMatchingToken and Function::IsMatchingToken: the other token is
\* a Bracket; ModBracket::IsMatchingToken: the other token is a ModBracket
IsMatchingToken(self, other) ==
  IF self.kind \in DistinctPairKinds THEN other.kind = "Bracket"
  ELSE other.kind = "ModBracket"

RECURSIVE FindMatchingToken(_, _, _, _)
RECURSIVE FindNextToken(_, _, _, _)
RECURSIVE DistinctPair_Scan(_, _, _, _, _)
RECURSIVE IndistinctPair_Scan(_, _, _, _, _)

\* a scan that takes the first closing bracket, whatever opened in between
RECURSIVE DistinctPair_Scan_FirstCloser(_, _, _, _, _)
DistinctPair_Scan_FirstCloser(tokens, cache, End, self, q) ==
  IF q = End THEN NoMatchingToken(self)
  ELSE IF q >= Len(tokens) THEN OutOfRange
  ELSE LET t == At(tokens, q)
       IN  IF t.kind \in DistinctPairKinds /\ IsMatchingToken(At(tokens, self), t)
              /\ t.variant
           THEN Found(q)
           ELSE DistinctPair_Scan_FirstCloser(tokens, cache, End, self, q + 1)

\* the for loop of DistinctPair::FindMatchingToken, out_token at position q
DistinctPair_Scan(tokens, cache, End, self, q) ==
  IF q = End THEN NoMatchingToken(self)
  ELSE IF q >= Len(tokens) THEN OutOfRange
  ELSE LET t == At(tokens, q)
       IN  IF t.kind \in DistinctPairKinds /\ IsMatchingToken(At(tokens, self), t)
              /\ t.variant
           THEN Found(q)
           ELSE LET n == FindNextToken(tokens, cache, End, q)
                IN  IF n.err # "none" THEN n
                    ELSE DistinctPair_Scan(tokens, cache, End, self, n.pos)

\* the for loop of IndistinctPair::FindMatchingToken
IndistinctPair_Scan(tokens, cache, End, self, q) ==
  IF q = End THEN NoMatchingToken(self)
  ELSE IF q >= Len(tokens) THEN OutOfRange
  ELSE LET t == At(tokens, q)
       IN  IF t.kind \in IndistinctPairKinds /\ IsMatchingToken(At(tokens, self), t)
           THEN Found(q)
           ELSE LET n == FindNextToken(tokens, cache, End, q)
                IN  IF n.err # "none" THEN n
                    ELSE IndistinctPair_Scan(tokens, cache, End, self, n.pos)

\* DistinctPair::FindMatchingToken consults the cache, IndistinctPair's does not
FindMatchingToken(tokens, cache, End, p) ==
  IF At(tokens, p).kind \in DistinctPairKinds
  THEN IF cache[p] # NoEntry THEN Found(cache[p])
       ELSE DistinctPair_Scan(tokens, cache, End, p, p + 1)
  ELSE IndistinctPair_Scan(tokens, cache, End, p, p + 1)

\* Token::FindNextToken, ParamSeparator::FindNextToken: the following token;
\* Pair::FindNextToken: the token after the partner
FindNextToken(tokens, cache, End, p) ==
  IF At(tokens, p).kind \in PairKinds
  THEN LET m == FindMatchingToken(tokens, cache, End, p)
       IN  IF m.err # "none" THEN m ELSE Found(m.pos + 1)
  ELSE Found(p + 1)

\* Pair::Backpatch of the token at p (SourcedToken::Backpatch does nothing):
\* the outcome is the new cache or the error thrown
Backpatch(tokens, cache, p) ==
  IF At(tokens, p).kind \in PairKinds
  THEN LET m == FindMatchingToken(tokens, cache, Len(tokens), p)
       IN  IF m.err # "none" THEN m
           ELSE [err |-> "none",
                 cache |-> IF cache[p] = NoEntry THEN [cache EXCEPT ![p] = m.pos]
                           ELSE cache]
  ELSE [err |-> "none", cache |-> cache]

(***************************************************************************)
(* Priorities, precedence and split rules                                  *)
(***************************************************************************)
\* std::numeric_limits<size_t>::max(); the model checker's integers have 32
\* bits, so the largest of them stands for it (only the order is used)
SizeMax == 2147483647

\* multiplication and division ranked with addition
GetPriority_MulAsAdd(tok) ==
  CASE tok.kind \in NumericKinds -> SizeMax
    [] tok.kind \in {"Add", "Sub", "Mul", "Div"} -> 1
    [] tok.kind = "Pow" -> 3
    [] tok.kind \in {"Bracket", "ModBracket"} -> SizeMax
    [] tok.kind \in FunctionKinds -> 4

\* the GetPriority overrides of the token classes
GetPriority(tok) ==
  CASE tok.kind \in NumericKinds -> SizeMax
    [] tok.kind \in {"Add", "Sub"} -> 1
    [] tok.kind \in {"Mul", "Div"} -> 2
    [] tok.kind = "Pow" -> 3
    [] tok.kind \in {"Bracket", "ModBracket"} -> SizeMax
    [] tok.kind \in FunctionKinds -> 4

IsPrecedent_OrEqual(tokens, self, other) ==
  IF At(tokens, self).kind = "ParamSeparator" THEN [err |-> "none", yes |-> TRUE]
  ELSE IF At(tokens, other).kind \notin MathTokenKinds
       THEN WrongTokenType(other)
       ELSE [err |-> "none",
             yes |-> GetPriority(At(tokens, self)) >= GetPriority(At(tokens, other))]

\* Token::IsPrecedent (throws WrongTokenType when 'other' is no math token)
\* and ParamSeparator::IsPrecedent; the outcome is [err, yes]
IsPrecedent(tokens, self, other) ==
  IF At(tokens, self).kind = "ParamSeparator" THEN [err |-> "none", yes |-> TRUE]
  ELSE IF At(tokens, other).kind \notin MathTokenKinds
       THEN WrongTokenType(other)
       ELSE [err |-> "none",
             yes |-> GetPriority(At(tokens, self)) > GetPriority(At(tokens, other))]

Slices(parts) == [err |-> "none", parts |-> parts]

Numeric_SplitPoints(b, e, cur) == Slices(<<>>)

BinaryOp_SplitPoints(b, e, cur) ==
  IF b = e THEN Slices(<<>>) ELSE Slices(<< <<b, cur>>, <<cur + 1, e>> >>)

Pair_SplitPoints(tokens, cache, b, e, cur) ==
  LET m == FindMatchingToken(tokens, cache, e, cur)
  IN  IF m.err # "none" THEN m ELSE Slices(<< <<cur + 1, m.pos>> >>)

\* the separators of ArgumentedFunction::SplitPoints found from position q on
RECURSIVE FoundSeparators(_, _, _, _, _)
FoundSeparators(tokens, cache, End, q, acc) ==
  IF q = End THEN [err |-> "none", seps |-> acc]
  ELSE IF q >= Len(tokens) THEN OutOfRange
  ELSE LET n == FindNextToken(tokens, cache, End, q)
           acc2 == IF At(tokens, q).kind = "ParamSeparator" THEN Append(acc, q) ELSE acc
       IN  IF n.err # "none" THEN n
           ELSE FoundSeparators(tokens, cache, End, n.pos, acc2)

RECURSIVE SeparatedRanges(_, _, _)
SeparatedRanges(prev_separator, seps, End) ==
  IF seps = <<>> THEN << <<prev_separator, End>> >>
  ELSE << <<prev_separator, Head(seps)>> >>
       \o SeparatedRanges(Head(seps) + 1, Tail(seps), End)

ArgumentedFunction_SplitPoints(tokens, cache, b, e, cur) ==
  LET first == Pair_SplitPoints(tokens, cache, b, e, cur)
  IN  IF first.err # "none" THEN first
      ELSE LET found_range == first.parts[1]
               s == FoundSeparators(tokens, cache, found_range[2], found_range[1], <<>>)
           IN  IF s.err # "none" THEN s
               ELSE IF s.seps = <<>> THEN first
               ELSE Slices(SeparatedRanges(found_range[1], s.seps, found_range[2]))

ParamSeparator_SplitPoints(cur) == UnexpectedSeparator(cur)

\* virtual dispatch of SplitPoints on the token at cur in the slice [b, e)
SplitPoints(tokens, cache, b, e, cur) ==
  LET k == At(tokens, cur).kind
  IN  CASE k \in NumericKinds -> Numeric_SplitPoints(b, e, cur)
        [] k \in BinaryOpKinds -> BinaryOp_SplitPoints(b, e, cur)
        [] k \in ArgumentedFunctionKinds ->
             ArgumentedFunction_SplitPoints(tokens, cache, b, e, cur)
        [] k \in PairKinds \ ArgumentedFunctionKinds ->
             Pair_SplitPoints(tokens, cache, b, e, cur)
        [] k = "ParamSeparator" -> ParamSeparator_SplitPoints(cur)

(***************************************************************************)
(* Parser::Engine::Parse: the partition of a slice [b, e) of the token     *)
(* vector into a tree.  A node is [tok, children], tok a token position.   *)
(***************************************************************************)
Node(p, children) == [tok |-> p, children |-> children]

Built(node) == [err |-> "none", node |-> node]

\* the precedence scan: the candidate is replaced by the visited token when
\* the candidate is precedent over it, so the root is the token of least
\* priority and the leftmost of equals
RECURSIVE LeastPrecedent(_, _, _, _, _)
LeastPrecedent(tokens, cache, e, it, cand) ==
  IF it = e THEN Found(cand)
  ELSE IF it >= Len(tokens) THEN OutOfRange
  ELSE LET pr == IsPrecedent(tokens, cand, it)
       IN  IF pr.err # "none" THEN pr
           ELSE LET n == FindNextToken(tokens, cache, e, it)
                IN  IF n.err # "none" THEN n
                    ELSE LeastPrecedent(tokens, cache, e, n.pos,
                                        IF pr.yes THEN it ELSE cand)

RECURSIVE ParseRange(_, _, _, _)
RECURSIVE ParseParts(_, _, _, _)

\* the children built from the sub-slices, an empty sub-slice giving no child
ParseParts(tokens, cache, parts, acc) ==
  IF parts = <<>> THEN [err |-> "none", children |-> acc]
  ELSE LET part == Head(parts)
       IN  IF part[1] >= part[2]
           THEN ParseParts(tokens, cache, Tail(parts), acc)
           ELSE LET c == ParseRange(tokens, cache, part[1], part[2])
                IN  IF c.err # "none" THEN c
                    ELSE ParseParts(tokens, cache, Tail(parts), Append(acc, c.node))

ParseRange(tokens, cache, b, e) ==
  IF e = b + 1 THEN Built(Node(b, <<>>))
  ELSE LET root == LeastPrecedent(tokens, cache, e, b, b)
       IN  IF root.err # "none" THEN root
           ELSE LET sp == SplitPoints(tokens, cache, b, e, root.pos)
                IN  IF sp.err # "none" THEN sp
                    ELSE LET ch == ParseParts(tokens, cache, sp.parts, <<>>)
                         IN  IF ch.err # "none" THEN ch
                             ELSE Built(Node(root.pos, ch.children))

(***************************************************************************)
(* Evaluation                                                              *)
(***************************************************************************)
Value(v) == [err |-> "none", val |-> v]

RECURSIVE DigitsValue(_, _)
DigitsValue(text, acc) ==
  IF text = <<>> THEN acc
  ELSE DigitsValue(Tail(text), 10 * acc + DigitVal(Head(text)))

RECURSIVE PointAt(_, _)
PointAt(text, i) ==
  IF i > Len(text) THEN 0 ELSE IF text[i] = "." THEN i ELSE PointAt(text, i + 1)

\* std::stold on the text of a Number token (digits with at most one point);
\* it throws std::invalid_argument when the text holds no digit
Stold(text) ==
  LET dot == PointAt(text, 1)
      whole == IF dot = 0 THEN text ELSE SubSeq(text, 1, dot - 1)
      frac == IF dot = 0 THEN <<>> ELSE SubSeq(text, dot + 1, Len(text))
  IN  IF whole = <<>> /\ frac = <<>> THEN Error("invalid_argument", -1, 0, 0, <<>>)
      ELSE Value(Rat(DigitsValue(whole, 0) * IntPow(10, Len(frac)) + DigitsValue(frac, 0),
                     IntPow(10, Len(frac))))

RECURSIVE Sum(_, _)
Sum(params, res) == IF params = <<>> THEN res ELSE Sum(Tail(params), FAdd(res, Head(params)))

RECURSIVE Difference(_, _)
Difference(params, res) ==
  IF params = <<>> THEN res ELSE Difference(Tail(params), FSub(res, Head(params)))

RECURSIVE Product(_, _)
Product(params, res) ==
  IF params = <<>> THEN res ELSE Product(Tail(params), FMul(res, Head(params)))

\* the loop of Div::Evaluate over params[1..], res the quotient so far
\* a division that lets a zero divisor through
RECURSIVE Quotient_ZeroGivesInf(_, _, _)
Quotient_ZeroGivesInf(self, params, res) ==
  IF params = <<>> THEN Value(res)
  ELSE IF IsZero(Head(params)) THEN Value(Term("inf", <<>>))
  ELSE Quotient_ZeroGivesInf(self, Tail(params), FDiv(res, Head(params)))

RECURSIVE Quotient(_, _, _)
Quotient(self, params, res) ==
  IF params = <<>> THEN Value(res)
  ELSE IF IsZero(Head(params)) THEN DivisionByZero(self)
  ELSE Quotient(self, Tail(params), FDiv(res, Head(params)))

\* the numeric formula of a function of one argument
UnaryFormula(kind, self, x) ==
  CASE kind = "SquareRoot" ->
         IF IsNegative(x) THEN NegativeNumberRoot(self) ELSE Value(Term("sqrtl", <<x>>))
    [] kind = "Sign" ->
         Value(IF IsZero(x) THEN IntVal(0) ELSE IF IsNegative(x) THEN IntVal(-1) ELSE IntVal(1))
    [] kind = "LogarithmE" -> Value(Term("logl", <<x>>))
    [] kind = "Logarithm2" -> Value(Term("log2l", <<x>>))
    [] kind = "Logarithm10" -> Value(Term("log10l", <<x>>))
    [] kind = "ExponentFunc" -> Value(Term("expl", <<x>>))
    [] kind = "Sine" -> Value(Term("sinl", <<x>>))
    [] kind = "Cosine" -> Value(Term("cosl", <<x>>))
    [] kind = "Tangent" -> Value(Term("tanl", <<x>>))
    [] kind = "Cotangent" -> Value(Term("div", <<IntVal(1), Term("tanl", <<x>>)>>))
    [] kind = "Arcsine" -> Value(Term("asinl", <<x>>))
    [] kind = "Arccosine" -> Value(Term("acosl", <<x>>))
    [] kind = "Arctangent" -> Value(Term("atanl", <<x>>))
    [] kind = "HyperbolicSine" -> Value(Term("sinhl", <<x>>))
    [] kind = "HyperbolicCosine" -> Value(Term("coshl", <<x>>))
    [] kind = "HyperbolicTangent" -> Value(Term("tanhl", <<x>>))
    [] kind = "HyperbolicArcsine" -> Value(Term("asinhl", <<x>>))
    [] kind = "HyperbolicArccosine" -> Value(Term("acoshl", <<x>>))
    [] kind = "HyperbolicArctangent" -> Value(Term("atanhl", <<x>>))

RECURSIVE Evaluate(_, _, _, _)
RECURSIVE EvaluateEach(_, _, _, _, _)

\* a loop that goes on after a failing child and reports the last failure
RECURSIVE EvaluateEach_LastError(_, _, _, _, _)
EvaluateEach_LastError(tokens, in_expr, environment, children, out_params) ==
  IF children = <<>> THEN [err |-> "none", params |-> out_params]
  ELSE LET node == Head(children)
           v == IF At(tokens, node.tok).kind \notin MathTokenKinds
                THEN WrongTokenType(node.tok)
                ELSE Evaluate(tokens, in_expr, environment, node)
           rest == EvaluateEach_LastError(tokens, in_expr, environment, Tail(children),
                     Append(out_params, IF v.err = "none" THEN v.val ELSE IntVal(0)))
       IN  IF rest.err # "none" THEN rest ELSE IF v.err # "none" THEN v ELSE rest

\* the loop of Token::EvaluateChildren
EvaluateEach(tokens, in_expr, environment, children, out_params) ==
  IF children = <<>> THEN [err |-> "none", params |-> out_params]
  ELSE LET node == Head(children)
       IN  IF At(tokens, node.tok).kind \notin MathTokenKinds THEN WrongTokenType(node.tok)
           ELSE LET v == Evaluate(tokens, in_expr, environment, node)
                IN  IF v.err # "none" THEN v
                    ELSE EvaluateEach(tokens, in_expr, environment, Tail(children),
                                      Append(out_params, v.val))

\* Token::EvaluateChildren; the exception is built with the expected count in
\* the place of cur_count and the actual count in the place of exp_count
EvaluateChildren(tokens, in_expr, environment, ast_node, expected_param_count) ==
  IF expected_param_count # 0 /\ Len(ast_node.children) # expected_param_count
  THEN UnexpectedSubexpressionCount(ast_node.tok, expected_param_count,
                                    Len(ast_node.children))
  ELSE EvaluateEach(tokens, in_expr, environment, ast_node.children, <<>>)

Number_Evaluate(tokens, in_expr, node) ==
  Stold(SourceText(in_expr, At(tokens, node.tok)))

\* a lookup that takes an unbound name for zero
Variable_Evaluate_DefaultZero(tokens, in_expr, environment, node) ==
  LET var_name == SourceText(in_expr, At(tokens, node.tok))
  IN  IF var_name \notin DOMAIN environment THEN Value(IntVal(0))
      ELSE Value(environment[var_name])

Variable_Evaluate(tokens, in_expr, environment, node) ==
  LET var_name == SourceText(in_expr, At(tokens, node.tok))
  IN  IF var_name \notin DOMAIN environment THEN UnresolvedSymbol(node.tok, var_name)
      ELSE Value(environment[var_name])

Add_Evaluate(tokens, in_expr, environment, node) ==
  IF Len(node.children) < 2
  THEN UnexpectedSubexpressionCount(node.tok, Len(node.children), 2)
  ELSE LET p == EvaluateChildren(tokens, in_expr, environment, node, 0)
       IN  IF p.err # "none" THEN p ELSE Value(Sum(p.params, IntVal(0)))

Sub_Evaluate(tokens, in_expr, environment, node) ==
  IF node.children = <<>>
  THEN UnexpectedSubexpressionCount(node.tok, Len(node.children), 1)
  ELSE LET p == EvaluateChildren(tokens, in_expr, environment, node, 0)
       IN  IF p.err # "none" THEN p
           ELSE IF Len(p.params) = 1 THEN Value(FNeg(p.params[1]))
           ELSE Value(Difference(Tail(p.params), p.params[1]))

Mul_Evaluate(tokens, in_expr, environment, node) ==
  LET p == EvaluateChildren(tokens, in_expr, environment, node, 0)
  IN  IF p.err # "none" THEN p
      ELSE IF Len(p.params) < 2
           THEN UnexpectedSubexpressionCount(node.tok, Len(p.params), 2)
           ELSE Value(Product(p.params, IntVal(1)))

Div_Evaluate(tokens, in_expr, environment, node) ==
  LET p == EvaluateChildren(tokens, in_expr, environment, node, 0)
  IN  IF p.err # "none" THEN p
      ELSE IF Len(p.params) < 2
           THEN UnexpectedSubexpressionCount(node.tok, Len(p.params), 2)
           ELSE Quotient(node.tok, Tail(p.params), p.params[1])

Pow_Evaluate(tokens, in_expr, environment, node) ==
  LET p == EvaluateChildren(tokens, in_expr, environment, node, 2)
  IN  IF p.err # "none" THEN p
      ELSE IF LessThanOne(p.params[2]) /\ IsNegative(p.params[1])
           THEN NegativeNumberRoot(node.tok)
           ELSE Value(Powl(p.params[1], p.params[2]))

Bracket_Evaluate(tokens, in_expr, environment, node) ==
  LET p == EvaluateChildren(tokens, in_expr, environment, node, 1)
  IN  IF p.err # "none" THEN p ELSE Value(p.params[1])

ModBracket_Evaluate(tokens, in_expr, environment, node) ==
  LET p == EvaluateChildren(tokens, in_expr, environment, node, 1)
  IN  IF p.err # "none" THEN p ELSE Value(FAbs(p.params[1]))

Function_Evaluate(tokens, in_expr, environment, node) ==
  LET p == EvaluateChildren(tokens, in_expr, environment, node, 1)
  IN  IF p.err # "none" THEN p
      ELSE UnaryFormula(At(tokens, node.tok).kind, node.tok, p.params[1])

Logarithm_Evaluate(tokens, in_expr, environment, node) ==
  LET p == EvaluateChildren(tokens, in_expr, environment, node, 2)
  IN  IF p.err # "none" THEN p
      ELSE Value(Term("div", <<Term("logl", <<p.params[1]>>), Term("logl", <<p.params[2]>>)>>))

\* virtual dispatch of Token::Evaluate on the token of the node
Evaluate(tokens, in_expr, environment, node) ==
  LET k == At(tokens, node.tok).kind
  IN  CASE k = "Number" -> Number_Evaluate(tokens, in_expr, node)
        [] k = "Pythagorean" -> Value(Term("M_PI", <<>>))
        [] k = "ExponentConst" -> Value(Term("M_E", <<>>))
        [] k = "Variable" -> Variable_Evaluate(tokens, in_expr, environment, node)
        [] k = "Add" -> Add_Evaluate(tokens, in_expr, environment, node)
        [] k = "Sub" -> Sub_Evaluate(tokens, in_expr, environment, node)
        [] k = "Mul" -> Mul_Evaluate(tokens, in_expr, environment, node)
        [] k = "Div" -> Div_Evaluate(tokens, in_expr, environment, node)
        [] k = "Pow" -> Pow_Evaluate(tokens, in_expr, environment, node)
        [] k = "Bracket" -> Bracket_Evaluate(tokens, in_expr, environment, node)
        [] k = "ModBracket" -> ModBracket_Evaluate(tokens, in_expr, environment, node)
        [] k = "Logarithm" -> Logarithm_Evaluate(tokens, in_expr, environment, node)
        [] k \in UnaryFunctionKinds -> Function_Evaluate(tokens, in_expr, environment, node)

(***************************************************************************)
(* Stringify of a tree node: the outcome is [err, text]                    *)
(***************************************************************************)
Stringified(text) == [err |-> "none", text |-> text]

RECURSIVE Stringify(_, _, _)
RECURSIVE StringifyEach(_, _, _, _, _)

\* the children's texts appended in order, 'between' put before each of them
StringifyEach(tokens, in_expr, children, between, out_expression) ==
  IF children = <<>> THEN Stringified(out_expression)
  ELSE LET c == Stringify(tokens, in_expr, Head(children))
       IN  IF c.err # "none" THEN c
           ELSE StringifyEach(tokens, in_expr, Tail(children), between,
                              out_expression \o between \o c.text)

SourcedToken_Stringify(tokens, in_expr, node) ==
  Stringified(SourceText(in_expr, At(tokens, node.tok)))

BinaryOp_Stringify(tokens, in_expr, node) ==
  IF Len(node.children) # 2
  THEN UnexpectedSubexpressionCount(node.tok, Len(node.children), 2)
  ELSE LET lh_child == Stringify(tokens, in_expr, node.children[1])
       IN  IF lh_child.err # "none" THEN lh_child
           ELSE StringifyEach(tokens, in_expr, <<node.children[2]>>, <<>>,
                              lh_child.text \o SourceText(in_expr, At(tokens, node.tok)))

Sub_Stringify(tokens, in_expr, node) ==
  IF node.children = <<>> THEN UnexpectedSubexpressionCount(node.tok, 0, 1)
  ELSE IF Len(node.children) > 2
  THEN UnexpectedSubexpressionCount(node.tok, Len(node.children), 2)
  ELSE IF Len(node.children) > 1 THEN BinaryOp_Stringify(tokens, in_expr, node)
  ELSE StringifyEach(tokens, in_expr, node.children, <<>>,
                     SourceText(in_expr, At(tokens, node.tok)))

Pair_Stringify(tokens, in_expr, node) ==
  StringifyEach(tokens, in_expr, node.children, <<>>,
                SourceText(in_expr, At(tokens, node.tok)))

\* Bracket::Stringify and Function::Stringify push ')', ModBracket::Stringify '|'
Closed_Stringify(tokens, in_expr, node, closing) ==
  LET p == Pair_Stringify(tokens, in_expr, node)
  IN  IF p.err # "none" THEN p ELSE Stringified(p.text \o <<closing>>)

\* the name, the first argument, then ", " and each further argument; reading
\* Children[0] of a node without children is out of range
ArgumentedFunction_Stringify(tokens, in_expr, node) ==
  IF node.children = <<>> THEN OutOfRange
  ELSE LET first == Stringify(tokens, in_expr, node.children[1])
       IN  IF first.err # "none" THEN first
           ELSE StringifyEach(tokens, in_expr, Tail(node.children), <<",", " ">>,
                              SourceText(in_expr, At(tokens, node.tok)) \o first.text)

\* virtual dispatch of Stringify on the token of the node
Stringify(tokens, in_expr, node) ==
  LET k == At(tokens, node.tok).kind
  IN  CASE k \in NumericKinds \cup {"ParamSeparator"} ->
             SourcedToken_Stringify(tokens, in_expr, node)
        [] k = "Sub" -> Sub_Stringify(tokens, in_expr, node)
        [] k \in BinaryOpKinds \ {"Sub"} -> BinaryOp_Stringify(tokens, in_expr, node)
        [] k = "Bracket" -> Closed_Stringify(tokens, in_expr, node, ")")
        [] k = "ModBracket" -> Closed_Stringify(tokens, in_expr, node, "|")
        [] k \in ArgumentedFunctionKinds -> ArgumentedFunction_Stringify(tokens, in_expr, node)
        [] k \in UnaryFunctionKinds -> Closed_Stringify(tokens, in_expr, node, ")")

(***************************************************************************)
(* Parser::Engine::Tokenize: one round tries the factories in order at the *)
(* cursor; the first one that yields a token or moves the cursor ends the  *)
(* round, a factory that throws ends the call                              *)
(***************************************************************************)
RECURSIVE TokenizeRound(_, _, _)
TokenizeRound(in_expr, c, factories) ==
  IF factories = <<>> THEN Thrown("UnrecognizedCharacter", c)
  ELSE LET r == CallFactory(Head(factories), in_expr, c)
       IN  IF r.err # "none" \/ r.tok # NoToken \/ r.cursor # c THEN r
           ELSE TokenizeRound(in_expr, c, Tail(factories))

\* a SyntaxError carries the offending character position
SyntaxError(kind, character) == Error(kind, character, 0, 0, <<>>)

RuntimeError(what) == Error(what, -1, 0, 0, <<>>)

(***************************************************************************)
(* The state machine of one call of MathExpressions::Evaluate              *)
(***************************************************************************)
NoTree == Node(-1, <<>>)

Pending == [err |-> "pending"]

EmptyCache(n) == [p \in 0 .. n - 1 |-> NoEntry]

\* what dereferencing the null Root of an empty tree may do
NullRootOutcomes == {Error("Crash", -1, 0, 0, <<>>), Value(IntVal(0))}

Fail(e, phase) ==
  /\ result' = e
  /\ thrown_in' = phase
  /\ pc' = "done"

\* if (expression.empty()) throw std::runtime_error(...)
Enter ==
  /\ pc = "start"
  /\ IF expression = <<>>
     THEN Fail(RuntimeError("EmptyExpression"), "start")
     ELSE /\ pc' = "tokenize"
          /\ UNCHANGED <<result, thrown_in>>
  /\ UNCHANGED <<history, expression, env, cursor, out_tokens, cur_token, PairCache, out_ast>>

\* parser.Tokenize(GetTokenFactories(), expression, out_tokens): one round
Tokenize ==
  /\ pc = "tokenize"
  /\ IF cursor >= Len(expression)
     THEN /\ pc' = "backpatch"
          /\ UNCHANGED <<cursor, out_tokens, PairCache, result, thrown_in>>
     ELSE LET r == TokenizeRound(expression, cursor, GetTokenFactories)
          IN  IF r.err # "none"
              THEN /\ Fail(SyntaxError(r.err, r.cursor), "tokenize")
                   /\ UNCHANGED <<cursor, out_tokens, PairCache>>
              ELSE /\ cursor' = r.cursor
                   /\ out_tokens' = IF r.tok # NoToken THEN Append(out_tokens, r.tok)
                                    ELSE out_tokens
                   /\ PairCache' = EmptyCache(Len(out_tokens'))
                   /\ UNCHANGED <<pc, result, thrown_in>>
  /\ UNCHANGED <<history, expression, env, cur_token, out_ast>>

\* the backpatch pass: Backpatch(tokens, cur_token) of one token
BackpatchToken ==
  /\ pc = "backpatch"
  /\ IF cur_token >= Len(out_tokens)
     THEN /\ pc' = "parse"
          /\ UNCHANGED <<cur_token, PairCache, result, thrown_in>>
     ELSE LET r == Backpatch(out_tokens, PairCache, cur_token)
          IN  IF r.err # "none"
              THEN /\ Fail(r, "backpatch")
                   /\ UNCHANGED <<cur_token, PairCache>>
              ELSE /\ PairCache' = r.cache
                   /\ cur_token' = cur_token + 1
                   /\ UNCHANGED <<pc, result, thrown_in>>
  /\ UNCHANGED <<history, expression, env, cursor, out_tokens, out_ast>>

\* parser.Parse(out_tokens, out_ast)
Parse ==
  /\ pc = "parse"
  /\ IF out_tokens = <<>>
     THEN /\ pc' = "evaluate"
          /\ UNCHANGED <<out_ast, result, thrown_in>>
     ELSE LET r == ParseRange(out_tokens, PairCache, 0, Len(out_tokens))
          IN  IF r.err # "none"
              THEN /\ Fail(r, "parse")
                   /\ UNCHANGED out_ast
              ELSE /\ out_ast' = r.node
                   /\ pc' = "evaluate"
                   /\ UNCHANGED <<result, thrown_in>>
  /\ UNCHANGED <<history, expression, env, cursor, out_tokens, cur_token, PairCache>>

\* the cast of out_ast.Root->Value and math_token->Evaluate(out_ast.Root, env)
EvaluateRoot ==
  /\ pc = "evaluate"
  /\ IF out_ast = NoTree
     THEN /\ result' \in NullRootOutcomes
          /\ thrown_in' = "evaluate"
     ELSE IF At(out_tokens, out_ast.tok).kind \notin MathTokenKinds
     THEN /\ result' = RuntimeError("NotAMathToken")
          /\ thrown_in' = "evaluate"
     ELSE LET v == Evaluate(out_tokens, expression, env, out_ast)
          IN  /\ result' = v
              /\ thrown_in' = IF v.err # "none" THEN "evaluate" ELSE "none"
  /\ pc' = "done"
  /\ UNCHANGED <<history, expression, env, cursor, out_tokens, cur_token, PairCache, out_ast>>

Next == Enter \/ Tokenize \/ BackpatchToken \/ Parse \/ EvaluateRoot

\* a further call of Evaluate: the finished call is recorded, the tokens of
\* the new call are new objects with empty pair caches
BeginCall(text, environment, how) ==
  /\ history' = Append(history, [expression |-> expression, env |-> env,
                                 out_tokens |-> out_tokens, out_ast |-> out_ast,
                                 result |-> result, next |-> how])
  /\ expression' = text
  /\ env' = environment
  /\ pc' = "start"
  /\ cursor' = 0
  /\ out_tokens' = <<>>
  /\ cur_token' = 0
  /\ PairCache' = EmptyCache(0)
  /\ out_ast' = NoTree
  /\ result' = Pending
  /\ thrown_in' = "none"

\* the caller evaluates another text after the call has ended
CallAgain(inputs) ==
  /\ pc = "done"
  /\ Len(history) + 1 < MaxCalls
  /\ \E input \in inputs : BeginCall(input[1], input[2], "call")

\* the caller stringifies the tree of the first call and evaluates that text
Restringify ==
  /\ pc = "done"
  /\ history = <<>>
  /\ out_ast # NoTree
  /\ LET text == Stringify(out_tokens, expression, out_ast)
     IN  /\ text.err = "none"
         /\ BeginCall(text.text, env, "stringify")

InitWith(inputs) ==
  /\ \E input \in inputs : expression = input[1] /\ env = input[2]
  /\ pc = "start"
  /\ cursor = 0
  /\ out_tokens = <<>>
  /\ cur_token = 0
  /\ PairCache = EmptyCache(0)
  /\ out_ast = NoTree
  /\ result = Pending
  /\ thrown_in = "none"
  /\ history = <<>>

(***************************************************************************)
(* The inputs                                                              *)
(***************************************************************************)
Operands == {"x", "y", "z"}

Operators == {"+", "-", "*", "/", "^"}

\* every environment binding x, y and z to integers of -MaxVal .. MaxVal
FullEnvs == [{<<"x">>, <<"y">>, <<"z">>} -> {IntVal(i) : i \in -MaxVal .. MaxVal}]

\* 'a op b' and 'a op b op c' over the variables, 'x^y^z' left out (its
\* value leaves the integers of the model checker)
ChainTexts ==
  { <<"x", o, "y">> : o \in Operators }
  \cup { <<"x", o[1], "y", o[2], "z">> : o \in (Operators \X Operators) \ {<<"^", "^">>} }

\* a '-' put before the first or the second operand, an operand left out
MinusTexts ==
  { <<"-", "x">>, <<"x", "-">>, <<"-">>, <<"-", "-", "x">> }
  \cup { <<"-", "x", o, "y">> : o \in Operators }
  \cup { <<"x", o, "-", "y">> : o \in Operators }
  \cup { <<"x", o>> : o \in Operators }
  \cup { <<o, "x">> : o \in Operators }

\* a fractional exponent under a base of either sign
FractionTexts == { <<"x", "^", "0", ".", "5">>, <<"x", "^", "1", ".", "5">> }

\* the literal examples of the design document
LiteralTexts ==
  { <<"2", "+", "3", "*", "4">>, <<"7", "-", "3", "-", "2">>, <<"-", "5", "+", "3">>,
    <<"3", "-", "-", "2">>, <<"5", "/", "0">>, <<"0", "/", "0">>,
    <<"8", "/", "2", "/", "2">>, <<"2", "^", "0", ".", "5">>, <<"2", "^">>,
    <<"(", "-", "8", ")", "^", "(", "1", "/", "3", ")">>, <<>> }

ZeroEnv == [n \in {<<"x">>, <<"y">>, <<"z">>} |-> IntVal(0)]

ArithInputs ==
  ((ChainTexts \cup MinusTexts \cup FractionTexts) \X FullEnvs)
  \cup (LiteralTexts \X {ZeroEnv})

InitArith == InitWith(ArithInputs)

SpecArith == InitArith /\ [][Next]_vars

\* texts around one variable, under every environment that binds some of the
\* names x, y and xy to integers of -MaxVal .. MaxVal
VarNames == {<<"x">>, <<"y">>, <<"x", "y">>}

VarEnvs ==
  UNION { [names -> {IntVal(i) : i \in -MaxVal .. MaxVal}] : names \in SUBSET VarNames }

VarTexts ==
  UNION { { name, name \o <<"*", "2">>, name \o <<"+", "1">>, <<"2", "*">> \o name }
          : name \in VarNames }

VarInputs == VarTexts \X VarEnvs

InitVars == InitWith(VarInputs)

SpecVars == InitVars /\ [][Next]_vars

\* every text of at most MaxLen lexemes among brackets, a modulus bar, a
\* function name, a number, an operator and a separator
PairLexemes ==
  { <<"(">>, <<")">>, <<"|">>, <<"l", "n", "(">>, <<"2">>, <<"+">>, <<",">> }

RECURSIVE LexemeTexts(_)
LexemeTexts(n) ==
  IF n = 0 THEN { <<>> }
  ELSE LET shorter == LexemeTexts(n - 1)
       IN  shorter \cup { t \o l : t \in shorter, l \in PairLexemes }

\* bracketed groups around the variables
GroupTexts ==
  { <<"(", "x", "+", "y", ")", "*", "z">>, <<"x", "*", "(", "y", "+", "z", ")">>,
    <<"(", "x", ")">>, <<"(", "-", "x", ")">>, <<"|", "x", "|">> }

PairTexts ==
  { <<"(", "2", "+", "3", ")", "*", "4">>, <<"(", "2", "+", "3">>, <<"2", ",", "3">>,
    <<"(", "(", "2", ")", ")">>, <<"|", "2", "|", "+", "|", "3", "|">>,
    <<"l", "o", "g", "(", "8", ",", "2", ")">>, <<"s", "q", "r", "t", "(", "1", "6", ")">>,
    <<"(", "-", "8", ")", "^", "(", "1", "/", "3", ")">> }

PairInputs ==
  ((LexemeTexts(MaxLen) \cup PairTexts) \X {ZeroEnv})
  \cup (GroupTexts \X FullEnvs)

InitPairs == InitWith(PairInputs)

SpecPairs == InitPairs /\ [][Next]_vars

\* calls in succession over a few texts and environments
AgainTexts ==
  { <<" ">>, <<"2", "+", "3">>, <<"(", "2">>, <<"|", "2", "|">>, <<"x", "/", "y">>,
    <<"1", ".", ".", "2">> }

AgainEnvs ==
  { <<>>,
    [n \in {<<"x">>, <<"y">>} |-> IF n = <<"x">> THEN IntVal(1) ELSE IntVal(0)],
    [n \in {<<"x">>, <<"y">>} |-> IF n = <<"x">> THEN IntVal(2) ELSE IntVal(1)] }

AgainInputs == AgainTexts \X AgainEnvs

InitAgain == InitWith(AgainInputs)

NextAgain == Next \/ CallAgain(AgainInputs)

SpecAgain == InitAgain /\ [][NextAgain]_vars

\* expressions of the accepted grammar, stringified and evaluated again
RoundTripTexts ==
  { <<"x", "+", "y", "*", "z">>, <<"x", "-", "y", "-", "z">>, <<"-", "x", "+", "y">>,
    <<"x", " ", "/", " ", "y">>, <<"1", ".", "5", "*", "x">>, <<"x", "^", "2">>,
    <<"(", "x", "+", "y", ")", "*", "z">>, <<"|", "x", "|">>,
    <<"s", "q", "r", "t", "(", "x", ")">>, <<"l", "o", "g", "(", "x", ",", "2", ")">> }

RoundTripInputs == RoundTripTexts \X FullEnvs

InitRoundTrip == InitWith(RoundTripInputs)

NextRoundTrip == Next \/ Restringify

SpecRoundTrip == InitRoundTrip /\ [][NextRoundTrip]_vars

\* the function spellings of the factories, alone and before an argument,
\* and every text of at most MaxLen characters of a small alphabet
Spellings ==
  UNION { { FunctionFactories[i].from[j] : j \in 1 .. Len(FunctionFactories[i].from) }
          : i \in 1 .. Len(FunctionFactories) }

SpellingTexts == Spellings \cup { sp \o <<"2", ")">> : sp \in Spellings }

LexAlphabet == { "1", ".", "l", "x", " ", "+", "#" }

RECURSIVE TextsOver(_, _)
TextsOver(alphabet, n) ==
  IF n = 0 THEN { <<>> }
  ELSE LET shorter == TextsOver(alphabet, n - 1)
       IN  shorter \cup { Append(t, ch) : t \in shorter, ch \in alphabet }

LexTexts ==
  { <<"a", "+", "b", "*", "c">>, <<"1", ".", ".", "2">>, <<"1", ".", "5", "+", ".", "5">>,
    <<"1", ".", "2", ".", "3">>, <<"x", "+", "1", ".", "2", ".">> }

LexInputs == (SpellingTexts \cup TextsOver(LexAlphabet, MaxLen) \cup LexTexts) \X {ZeroEnv}

InitLex == InitWith(LexInputs)

SpecLex == InitLex /\ [][Next]_vars

\* texts that fail in one phase or in several, under the environments that
\* bind some of x and y to 0 or 1
OrderTexts ==
  { <<"x", "+", "y">>, <<"x", "/", "y">>, <<"y", "/", "x", "+", "x">>,
    <<"x", "/", "0", "+", "y">>, <<"1", ".", ".", "2", "+", "(">>, <<"#", "(">>,
    <<"(", "/", "0">>, <<"(", "2">>, <<"2", ",", "3", "/", "0">>, <<"2", "^">>,
    <<"x", "*">>, <<"x", "^", "y">>, <<"2", "+", "3">>, <<>> }

OrderEnvs ==
  UNION { [names -> {IntVal(0), IntVal(1)}] : names \in SUBSET {<<"x">>, <<"y">>} }

OrderInputs == OrderTexts \X OrderEnvs

InitOrder == InitWith(OrderInputs)

SpecOrder == InitOrder /\ [][Next]_vars

\* every input of the single-call families
Init == InitWith(ArithInputs \cup VarInputs \cup PairInputs \cup LexInputs)

Spec == Init /\ [][Next]_vars

(***************************************************************************)
(* Helpers of the properties                                               *)
(***************************************************************************)
Done == pc = "done"

Returned(v) == result = Value(v)

ValueOf(name) == env[<<name>>]

\* the rank of an operator character: + and - below * and / below ^
OpRank(ch) ==
  CASE ch \in {"+", "-"} -> 1
    [] ch \in {"*", "/"} -> 2
    [] ch = "^" -> 3

\* the outcome of 'l ch r' for an operator at token position p, l and r being
\* outcomes themselves: the error of the first failing operand, else the
\* documented rule of the operator
Apply(ch, l, r, p) ==
  IF l.err # "none" THEN l
  ELSE IF r.err # "none" THEN r
  ELSE CASE ch = "+" -> Value(FAdd(l.val, r.val))
         [] ch = "-" -> Value(FSub(l.val, r.val))
         [] ch = "*" -> Value(FMul(l.val, r.val))
         [] ch = "/" -> IF IsZero(r.val) THEN DivisionByZero(p)
                        ELSE Value(FDiv(l.val, r.val))
         [] ch = "^" -> IF LessThanOne(r.val) /\ IsNegative(l.val)
                        THEN NegativeNumberRoot(p)
                        ELSE Value(Powl(l.val, r.val))

Negated(o) == IF o.err # "none" THEN o ELSE Value(FNeg(o.val))

Leaf(p) == Node(p, <<>>)

\* every node of a tree
RECURSIVE SubNodes(_)
SubNodes(node) ==
  {node} \cup UNION { SubNodes(node.children[i]) : i \in 1 .. Len(node.children) }

IsChain(text) == Len(text) = 5 /\ text[1] = "x" /\ text[3] = "y" /\ text[5] = "z"

(***************************************************************************)
(* C1: in a bracket-free expression the operator of higher priority binds  *)
(* tighter whatever its position: in 'x o1 y o2 z' with operators of       *)
(* different rank the operator of lower rank is the root and the other one *)
(* is applied to its two neighbours first, so 'x+y*z' and 'y*z+x' are      *)
(* x+(y*z) and 'x*y^z' is x*(y^z); "2+3*4" is 14.                          *)
(***************************************************************************)
C1_HigherPriorityBindsTighter ==
  Done =>
    /\ (IsChain(expression) /\ OpRank(expression[2]) < OpRank(expression[4])) =>
         /\ out_ast = Node(1, <<Leaf(0), Node(3, <<Leaf(2), Leaf(4)>>)>>)
         /\ result = Apply(expression[2], Value(ValueOf("x")),
                           Apply(expression[4], Value(ValueOf("y")),
                                 Value(ValueOf("z")), 3), 1)
    /\ (IsChain(expression) /\ OpRank(expression[2]) > OpRank(expression[4])) =>
         /\ out_ast = Node(3, <<Node(1, <<Leaf(0), Leaf(2)>>), Leaf(4)>>)
         /\ result = Apply(expression[4],
                           Apply(expression[2], Value(ValueOf("x")),
                                 Value(ValueOf("y")), 1),
                           Value(ValueOf("z")), 3)
    /\ expression = <<"2", "+", "3", "*", "4">> => Returned(IntVal(14))

\* 'x*y+z' with x = 2, y = 2, z = 1 has returned 5 (and not 2*(2+1) = 6)
C1_Witness ==
  /\ Done
  /\ expression = <<"x", "*", "y", "+", "z">>
  /\ ValueOf("x") = IntVal(2) /\ ValueOf("y") = IntVal(2) /\ ValueOf("z") = IntVal(1)
  /\ Returned(IntVal(5))

(***************************************************************************)
(* C3: a chain of binary operators of equal priority is left-associative:  *)
(* 'x-y-z' is (x-y)-z, 'x/y/z' is (x/y)/z and 'x-y+z' is (x-y)+z.          *)
(***************************************************************************)
C3_LeftAssociative ==
  (Done /\ IsChain(expression) /\ OpRank(expression[2]) = OpRank(expression[4])) =>
     result = Apply(expression[4],
                    Apply(expression[2], Value(ValueOf("x")), Value(ValueOf("y")), 1),
                    Value(ValueOf("z")), 3)

(***************************************************************************)
(* C4: a '-' at the very start of an expression negates only the operand   *)
(* that directly follows it: '-x+y' is (-x)+y; "-5+3" is -2.               *)
(***************************************************************************)
C4_LeadingMinusNegatesOperand ==
  Done =>
    /\ expression = <<"-", "x", "+", "y">> =>
         Returned(FAdd(FNeg(ValueOf("x")), ValueOf("y")))
    /\ expression = <<"-", "5", "+", "3">> => Returned(IntVal(-2))

(***************************************************************************)
(* C5: a '-' with nothing to its syntactic left (at the start, or right    *)
(* after another binary operator) is a negation and never an error:        *)
(* 'x o -y' is x o (-y) for every operator o, "3--2" is 5.                 *)
(***************************************************************************)
C5_MinusAfterOperatorNegates ==
  Done =>
    /\ (Len(expression) = 4 /\ expression[1] = "x" /\ expression[2] \in Operators
        /\ expression[3] = "-" /\ expression[4] = "y") =>
         result = Apply(expression[2], Value(ValueOf("x")),
                        Negated(Value(ValueOf("y"))), 1)
    /\ expression = <<"-", "x">> => Returned(FNeg(ValueOf("x")))
    /\ expression = <<"3", "-", "-", "2">> => Returned(IntVal(5))

C2_BracketsOverridePriority ==
  Done =>
    /\ expression = <<"(", "x", "+", "y", ")", "*", "z">> =>
         /\ thrown_in # "backpatch"
         /\ Returned(FMul(FAdd(ValueOf("x"), ValueOf("y")), ValueOf("z")))
    /\ expression = <<"(", "2", "+", "3", ")", "*", "4">> => Returned(IntVal(20))

(***************************************************************************)
(* C7: a parameter separator that no function's argument list encloses     *)
(* makes Evaluate fail with UnexpectedSeparator, wherever it stands among  *)
(* the other tokens, as in "2,3".                                          *)
(***************************************************************************)
HasKind(tokens, kinds) == \E i \in 1 .. Len(tokens) : tokens[i].kind \in kinds

C7_SeparatorOutsideFunction ==
  (/\ Done
   /\ thrown_in # "tokenize"
   /\ HasKind(out_tokens, {"ParamSeparator"})
   /\ ~HasKind(out_tokens, PairKinds)) =>
     result.err = "UnexpectedSeparator"

(***************************************************************************)
(* C8: an opening bracket, a function token or a modulus bar without a     *)
(* partner later in the token sequence makes Evaluate fail with            *)
(* NoMatchingToken identifying that token, raised in the backpatch pass    *)
(* before any tree is built, as "(2+3" does.                               *)
(***************************************************************************)
IsOpener(tok) == (tok.kind = "Bracket" /\ ~tok.variant) \/ tok.kind \in FunctionKinds

\* a closing bracket at the nesting depth of the opener, from position q on
RECURSIVE ClosedLater(_, _, _)
ClosedLater(tokens, q, depth) ==
  IF q >= Len(tokens) THEN FALSE
  ELSE LET t == At(tokens, q)
       IN  IF t.kind = "Bracket" /\ t.variant
           THEN depth = 0 \/ ClosedLater(tokens, q + 1, depth - 1)
           ELSE ClosedLater(tokens, q + 1, IF IsOpener(t) THEN depth + 1 ELSE depth)

BarsIn(tokens, from, to) ==
  { q \in from .. to : At(tokens, q).kind = "ModBracket" }

\* openers without a closing bracket at their depth, and the bar left over
\* when the bars are paired off in order
UnmatchedOpeners(tokens) ==
  { p \in 0 .. Len(tokens) - 1 :
      \/ IsOpener(At(tokens, p)) /\ ~ClosedLater(tokens, p + 1, 0)
      \/ /\ At(tokens, p).kind = "ModBracket"
         /\ Cardinality(BarsIn(tokens, 0, p - 1)) % 2 = 0
         /\ BarsIn(tokens, p + 1, Len(tokens) - 1) = {} }

C8_IdentifiesUnmatchedToken ==
  (Done /\ thrown_in # "tokenize" /\ UnmatchedOpeners(out_tokens) # {}) =>
     /\ result.err = "NoMatchingToken"
     /\ thrown_in = "backpatch"
     /\ out_ast = NoTree
     /\ result.tok \in UnmatchedOpeners(out_tokens)

(***************************************************************************)
(* C10: a Pow node with exactly two children fails with NegativeNumberRoot *)
(* when the exponent is below 1 and the base negative and returns the base *)
(* raised to the exponent otherwise; with another number of children it    *)
(* fails with UnexpectedSubexpressionCount; "(-8)^(1/3)" fails with        *)
(* NegativeNumberRoot.                                                     *)
(***************************************************************************)
C10_PowRule ==
  Done =>
    /\ \A node \in SubNodes(out_ast) :
         (node # NoTree /\ At(out_tokens, node.tok).kind = "Pow") =>
           LET got == Evaluate(out_tokens, expression, env, node)
           IN  IF Len(node.children) # 2
               THEN got.err = "UnexpectedSubexpressionCount" /\ got.tok = node.tok
               ELSE LET base == Evaluate(out_tokens, expression, env, node.children[1])
                        exponent == Evaluate(out_tokens, expression, env, node.children[2])
                    IN  (base.err = "none" /\ exponent.err = "none") =>
                          got = IF LessThanOne(exponent.val) /\ IsNegative(base.val)
                                THEN NegativeNumberRoot(node.tok)
                                ELSE Value(Powl(base.val, exponent.val))
    /\ expression = <<"(", "-", "8", ")", "^", "(", "1", "/", "3", ")">> =>
         result.err = "NegativeNumberRoot"

(***************************************************************************)
(* C11: an argumented function whose bracketed range holds k top-level     *)
(* separators gets k+1 children in source order, and 'log(a,b)' is the     *)
(* logarithm of a in base b: "log(8,2)" succeeds with a Logarithm root     *)
(* over the two numbers 8 and 2.                                           *)
(***************************************************************************)
\* the separators at the nesting depth of the function whose range opens at q
RECURSIVE TopSeparators(_, _, _, _)
TopSeparators(tokens, q, depth, n) ==
  IF q >= Len(tokens) THEN n
  ELSE LET t == At(tokens, q)
       IN  IF t.kind = "Bracket" /\ t.variant
           THEN IF depth = 0 THEN n ELSE TopSeparators(tokens, q + 1, depth - 1, n)
           ELSE IF IsOpener(t) THEN TopSeparators(tokens, q + 1, depth + 1, n)
           ELSE TopSeparators(tokens, q + 1, depth,
                              IF t.kind = "ParamSeparator" /\ depth = 0 THEN n + 1 ELSE n)

C11_ArgumentedFunctionChildren ==
  Done =>
    /\ \A node \in SubNodes(out_ast) :
         (node # NoTree /\ At(out_tokens, node.tok).kind \in ArgumentedFunctionKinds) =>
           Len(node.children) = TopSeparators(out_tokens, node.tok + 1, 0, 0) + 1
    /\ expression = <<"l", "o", "g", "(", "8", ",", "2", ")">> =>
         /\ result.err = "none"
         /\ At(out_tokens, out_ast.tok).kind = "Logarithm"
         /\ Len(out_ast.children) = 2
         /\ SourceText(expression, At(out_tokens, out_ast.children[1].tok)) = <<"8">>
         /\ SourceText(expression, At(out_tokens, out_ast.children[2].tok)) = <<"2">>

(***************************************************************************)
(* C12: round trip: for a valid expression E the parse yields a tree, and  *)
(* stringifying that tree and evaluating the text again yields a tree of   *)
(* the same shape over tokens of the same kinds and the same result.       *)
(***************************************************************************)
TokenKinds(tokens) == [i \in 1 .. Len(tokens) |-> tokens[i].kind]

C12_RoundTrip ==
  Done =>
    /\ (history = <<>> /\ expression \in RoundTripTexts) => out_ast # NoTree
    /\ (history # <<>> /\ history[1].next = "stringify") =>
         /\ out_ast = history[1].out_ast
         /\ TokenKinds(out_tokens) = TokenKinds(history[1].out_tokens)
         /\ result = history[1].result

RECURSIVE SpellingOf(_, _)
SpellingOf(text, i) ==
  IF i > Len(text) THEN <<>>
  ELSE IF text[i] = "(" THEN SubSeq(text, 1, i) ELSE SpellingOf(text, i + 1)

C14_SpellingIsOneFunctionToken ==
  (Done /\ expression \in SpellingTexts) =>
     /\ thrown_in # "tokenize"
     /\ out_tokens # <<>>
     /\ out_tokens[1].kind \in FunctionKinds
     /\ out_tokens[1].start = 0
     /\ out_tokens[1].end = Len(SpellingOf(expression, 1))

(***************************************************************************)
(* C15: the spellings 'atgh(', 'atanh(', 'arctgh(' and 'arctanh(' give a   *)
(* HyperbolicArctangent token, not the HyperbolicTangent token of 'tanh('  *)
(* and 'tgh('.                                                             *)
(***************************************************************************)
HyperbolicArctangentSpellings ==
  { <<"a", "t", "g", "h", "(">>, <<"a", "t", "a", "n", "h", "(">>,
    <<"a", "r", "c", "t", "g", "h", "(">>, <<"a", "r", "c", "t", "a", "n", "h", "(">> }

C15_HyperbolicArctangentToken ==
  (Done /\ SpellingOf(expression, 1) \in HyperbolicArctangentSpellings) =>
     /\ out_tokens # <<>>
     /\ out_tokens[1].kind = "HyperbolicArctangent"

(***************************************************************************)
(* C16: a numeric literal with a second decimal point makes tokenization   *)
(* fail with IncorrectlyFormedNumber at the position of that point; the    *)
(* call goes no further and returns no number.                             *)
(***************************************************************************)
\* the 0-based position of the first point that is the second one of its
\* literal (a run of digits and points), -1 when there is none
RECURSIVE SecondPointAt(_, _, _)
SecondPointAt(text, i, seen) ==
  IF i > Len(text) THEN -1
  ELSE IF text[i] = "." THEN IF seen THEN i - 1 ELSE SecondPointAt(text, i + 1, TRUE)
  ELSE SecondPointAt(text, i + 1, seen /\ text[i] \in Digits)

Lexical(text) ==
  \A i \in 1 .. Len(text) : text[i] \in Digits \cup {".", "+", "x", " "}

RECURSIVE SpansCover(_, _, _, _)
SpansCover(text, tokens, i, c) ==
  IF c >= Len(text) THEN i > Len(tokens)
  ELSE IF text[c + 1] \in Blanks /\ (i > Len(tokens) \/ tokens[i].start # c)
  THEN SpansCover(text, tokens, i, c + 1)
  ELSE /\ i <= Len(tokens)
       /\ tokens[i].start = c
       /\ tokens[i].end > c
       /\ SpansCover(text, tokens, i + 1, tokens[i].end)

C17_SpansCoverText ==
  (Done /\ thrown_in # "tokenize") => SpansCover(expression, out_tokens, 1, 0)

(***************************************************************************)
(* C18: Evaluate runs tokenize, backpatch, partition and evaluate in that  *)
(* order and stops at the first error: the outcome is the error of the     *)
(* first phase that fails, no later phase has run, and inside the          *)
(* evaluator the error of the first failing child, in child order, is the  *)
(* error of its parent.                                                    *)
(***************************************************************************)
RECURSIVE TokenizeAll(_, _, _)
TokenizeAll(in_expr, c, acc) ==
  IF c >= Len(in_expr) THEN [err |-> "none", tokens |-> acc]
  ELSE LET r == TokenizeRound(in_expr, c, GetTokenFactories)
       IN  IF r.err # "none" THEN r
           ELSE TokenizeAll(in_expr, r.cursor,
                            IF r.tok # NoToken THEN Append(acc, r.tok) ELSE acc)

RECURSIVE BackpatchAll(_, _, _)
BackpatchAll(tokens, cache, p) ==
  IF p >= Len(tokens) THEN [err |-> "none", cache |-> cache]
  ELSE LET r == Backpatch(tokens, cache, p)
       IN  IF r.err # "none" THEN r ELSE BackpatchAll(tokens, r.cache, p + 1)

\* the error of the first phase that fails on a text with at least one token
FirstOutcome(text, environment) ==
  IF text = <<>> THEN <<RuntimeError("EmptyExpression"), "start">>
  ELSE LET tk == TokenizeAll(text, 0, <<>>)
       IN  IF tk.err # "none" THEN <<SyntaxError(tk.err, tk.cursor), "tokenize">>
           ELSE LET bp == BackpatchAll(tk.tokens, EmptyCache(Len(tk.tokens)), 0)
                IN  IF bp.err # "none" THEN <<bp, "backpatch">>
                    ELSE LET tree == ParseRange(tk.tokens, bp.cache, 0, Len(tk.tokens))
                         IN  IF tree.err # "none" THEN <<tree, "parse">>
                             ELSE IF At(tk.tokens, tree.node.tok).kind \notin MathTokenKinds
                             THEN <<RuntimeError("NotAMathToken"), "evaluate">>
                             ELSE LET v == Evaluate(tk.tokens, text, environment, tree.node)
                                  IN  <<v, IF v.err # "none" THEN "evaluate" ELSE "none">>

FailingChildren(node) ==
  { i \in 1 .. Len(node.children) :
      \/ At(out_tokens, node.children[i].tok).kind \notin MathTokenKinds
      \/ Evaluate(out_tokens, expression, env, node.children[i]).err # "none" }

Least(set) == CHOOSE i \in set : \A j \in set : i <= j

C18_FirstErrorWins ==
  (Done /\ (out_tokens # <<>> \/ thrown_in \in {"start", "tokenize"})) =>
     /\ <<result, thrown_in>> = FirstOutcome(expression, env)
     /\ (result.err = "none") = (thrown_in = "none")
     /\ thrown_in = "start" => (cursor = 0 /\ out_tokens = <<>>)
     /\ thrown_in \in {"start", "tokenize"} => (cur_token = 0 /\ PairCache = EmptyCache(Len(out_tokens)))
     /\ thrown_in \in {"start", "tokenize", "backpatch", "parse"} => out_ast = NoTree
     /\ thrown_in \in {"backpatch", "parse", "evaluate", "none"} => cursor >= Len(expression)
     /\ thrown_in \in {"parse", "evaluate", "none"} => cur_token = Len(out_tokens)
     /\ \A node \in SubNodes(out_ast) :
          (/\ node # NoTree
           /\ At(out_tokens, node.tok).kind \in MathTokenKinds
           /\ FailingChildren(node) # {}) =>
             LET got == Evaluate(out_tokens, expression, env, node)
                 first == node.children[Least(FailingChildren(node))]
             IN  \/ got.err = "UnexpectedSubexpressionCount" /\ got.tok = node.tok
                 \/ /\ At(out_tokens, first.tok).kind \in MathTokenKinds
                    /\ got = Evaluate(out_tokens, expression, env, first)
                 \/ /\ At(out_tokens, first.tok).kind \notin MathTokenKinds
                    /\ got = WrongTokenType(first.tok)

\* 'x+y' without bindings has failed for x, the first child of '+'
C18_Witness ==
  /\ Done
  /\ expression = <<"x", "+", "y">>
  /\ env = <<>>
  /\ result = UnresolvedSymbol(0, <<"x">>)
  /\ thrown_in = "evaluate"

(***************************************************************************)
(* C19: an UnexpectedSubexpressionCount error reports as CurrentCount the  *)
(* number of children of the node and as ExpectedCount the required        *)
(* number.                                                                 *)
(***************************************************************************)
C19_CountsReported ==
  (Done /\ result.err = "UnexpectedSubexpressionCount") =>
     \A node \in SubNodes(out_ast) :
       node.tok = result.tok =>
         /\ result.cur = Len(node.children)
         /\ result.exp # Len(node.children)
         /\ result.exp = IF At(out_tokens, node.tok).kind = "Sub" /\ node.children = <<>>
                         THEN 1 ELSE 2

(***************************************************************************)
(* C20: once the backpatch pass has succeeded every pair token of the      *)
(* sequence has its cache entry, and the pass fails only when some pair    *)
(* token has no partner, with NoMatchingToken at such a token.             *)
(***************************************************************************)
\* an opener at the nesting depth of the closing bracket, from q backwards
RECURSIVE OpenedBefore(_, _, _)
OpenedBefore(tokens, q, depth) ==
  IF q < 0 THEN FALSE
  ELSE LET t == At(tokens, q)
       IN  IF IsOpener(t)
           THEN depth = 0 \/ OpenedBefore(tokens, q - 1, depth - 1)
           ELSE OpenedBefore(tokens, q - 1,
                             IF t.kind = "Bracket" /\ t.variant THEN depth + 1 ELSE depth)

Unpartnered(tokens) ==
  UnmatchedOpeners(tokens)
  \cup { p \in 0 .. Len(tokens) - 1 :
           /\ At(tokens, p).kind = "Bracket"
           /\ At(tokens, p).variant
           /\ ~OpenedBefore(tokens, p - 1, 0) }

C20_CacheCompleteOrNoPartner ==
  (Done /\ thrown_in # "tokenize") =>
     /\ thrown_in \in {"parse", "evaluate", "none"} =>
          \A p \in 0 .. Len(out_tokens) - 1 :
            At(out_tokens, p).kind \in PairKinds => PairCache[p] # NoEntry
     /\ Unpartnered(out_tokens) # {} => thrown_in = "backpatch"
     /\ thrown_in = "backpatch" =>
          /\ result.err = "NoMatchingToken"
          /\ result.tok \in Unpartnered(out_tokens)

(***************************************************************************)
(* C21: a space or a tab inserted between two tokens, before the first     *)
(* token or after the last changes neither the token sequence (kinds and   *)
(* texts) nor the outcome of Evaluate.                                     *)
(***************************************************************************)
InsertAt(text, c, ch) == SubSeq(text, 1, c) \o <<ch>> \o SubSeq(text, c + 1, Len(text))

TokenTexts(text, tokens) ==
  [i \in 1 .. Len(tokens) |-> <<tokens[i].kind, SourceText(text, tokens[i])>>]

TokenBoundaries(text, tokens) ==
  {0, Len(text)} \cup { tokens[i].start : i \in 1 .. Len(tokens) }
                 \cup { tokens[i].end : i \in 1 .. Len(tokens) }

C21_BlanksChangeNothing ==
  (Done /\ thrown_in # "tokenize" /\ out_tokens # <<>>) =>
     \A c \in TokenBoundaries(expression, out_tokens) : \A ch \in Blanks :
       LET spaced == InsertAt(expression, c, ch)
           tk == TokenizeAll(spaced, 0, <<>>)
       IN  /\ tk.err = "none"
           /\ TokenTexts(spaced, tk.tokens) = TokenTexts(expression, out_tokens)
           /\ FirstOutcome(spaced, env) = <<result, thrown_in>>

(***************************************************************************)
(* C22: in a slice of more than one token the root chosen by the           *)
(* precedence scan is the token of minimum priority among the tokens of    *)
(* the slice's level, and the leftmost of the tokens of that priority; no  *)
(* token of higher priority is the root while one of lower priority stands *)
(* at the same level.  It is stated for every slice of the tree.           *)
(***************************************************************************)
LeftmostMinimum(tokens, b, e) ==
  CHOOSE p \in b .. e - 1 :
    /\ \A q \in b .. e - 1 : GetPriority(At(tokens, q)) >= GetPriority(At(tokens, p))
    /\ \A q \in b .. p - 1 : GetPriority(At(tokens, q)) > GetPriority(At(tokens, p))

RECURSIVE RootsAreLeastBinding(_, _, _)
RootsAreLeastBinding(node, b, e) ==
  IF e = b + 1 THEN node = Leaf(b)
  ELSE /\ node.tok = LeftmostMinimum(out_tokens, b, e)
       /\ LET sp == SplitPoints(out_tokens, PairCache, b, e, node.tok)
              parts == IF sp.err = "none"
                       THEN SelectSeq(sp.parts, LAMBDA part : part[1] < part[2])
                       ELSE <<>>
          IN  /\ sp.err = "none"
              /\ Len(parts) = Len(node.children)
              /\ \A i \in 1 .. Len(parts) :
                   RootsAreLeastBinding(node.children[i], parts[i][1], parts[i][2])

C22_RootIsLeftmostMinimum ==
  (out_ast # NoTree /\ \A i \in 1 .. Len(out_tokens) : out_tokens[i].kind \in MathTokenKinds) =>
     RootsAreLeastBinding(out_ast, 0, Len(out_tokens))

\* a chain of two operators of equal priority, split at the left one
C22_Witness ==
  /\ Done /\ out_ast # NoTree /\ Len(out_tokens) = 5
  /\ out_ast.tok = 1
  /\ out_tokens[2].kind \in BinaryOpKinds /\ out_tokens[4].kind \in BinaryOpKinds
  /\ GetPriority(out_tokens[2]) = GetPriority(out_tokens[4])
  /\ Len(out_ast.children) = 2 /\ out_ast.children[2].tok = 3

(***************************************************************************)
(* C23: in a balanced token sequence the partner found for each opening    *)
(* bracket and each function token is the closing bracket at its own       *)
(* nesting depth, for any depth of nesting: the pairs that open in between *)
(* are skipped as units.                                                   *)
(***************************************************************************)
\* brackets, functions and bars properly nested: a bar closes the bar that
\* is open innermost and opens otherwise
RECURSIVE WellNested(_, _, _)
WellNested(tokens, q, open) ==
  IF q >= Len(tokens) THEN open = <<>>
  ELSE LET t == At(tokens, q)
           top == IF open = <<>> THEN "" ELSE open[Len(open)]
           rest == IF open = <<>> THEN <<>> ELSE SubSeq(open, 1, Len(open) - 1)
       IN  IF IsOpener(t) THEN WellNested(tokens, q + 1, Append(open, "("))
           ELSE IF t.kind = "Bracket"
                THEN top = "(" /\ WellNested(tokens, q + 1, rest)
           ELSE IF t.kind = "ModBracket"
                THEN IF top = "|" THEN WellNested(tokens, q + 1, rest)
                     ELSE WellNested(tokens, q + 1, Append(open, "|"))
           ELSE WellNested(tokens, q + 1, open)

\* the closing bracket at the depth of the opener, searched from q on
RECURSIVE CloserAtDepth(_, _, _)
CloserAtDepth(tokens, q, depth) ==
  IF q >= Len(tokens) THEN NoEntry
  ELSE LET t == At(tokens, q)
       IN  IF t.kind = "Bracket" /\ t.variant
           THEN IF depth = 0 THEN q ELSE CloserAtDepth(tokens, q + 1, depth - 1)
           ELSE CloserAtDepth(tokens, q + 1, IF IsOpener(t) THEN depth + 1 ELSE depth)

Openers(tokens) == { p \in 0 .. Len(tokens) - 1 : IsOpener(At(tokens, p)) }

C23_PartnerAtOwnDepth ==
  (pc \notin {"start", "tokenize"} /\ WellNested(out_tokens, 0, <<>>)) =>
     \A p \in Openers(out_tokens) :
       LET m == FindMatchingToken(out_tokens, EmptyCache(Len(out_tokens)),
                                  Len(out_tokens), p)
           n == FindMatchingToken(out_tokens, PairCache, Len(out_tokens), p)
       IN  /\ m = Found(CloserAtDepth(out_tokens, p + 1, 0))
           /\ n = m
           /\ PairCache[p] \in {NoEntry, m.pos}

\* two brackets nested, both partners recorded
C23_Witness ==
  /\ pc \notin {"start", "tokenize"} /\ WellNested(out_tokens, 0, <<>>)
  /\ Len(out_tokens) = 5
  /\ {0, 1} \subseteq Openers(out_tokens)
  /\ PairCache[0] = 4 /\ PairCache[1] = 3

(***************************************************************************)
(* C24: the partner of a modulus bar is the first bar reached by scanning  *)
(* forward, without depth counting: in '|a|+|b|' the first bar pairs with  *)
(* the second and the third with the fourth, so that the text evaluates to *)
(* |a| + |b|.                                                              *)
(***************************************************************************)
TwoModuli == <<"ModBracket", "Number", "ModBracket", "Add",
               "ModBracket", "Number", "ModBracket">>

C24_BarsPairInOrder ==
  (Done /\ thrown_in # "tokenize" /\ TokenKinds(out_tokens) = TwoModuli) =>
     /\ PairCache[0] = 2
     /\ PairCache[4] = 6
     /\ Returned(FAdd(FAbs(Stold(SourceText(expression, out_tokens[2])).val),
                      FAbs(Stold(SourceText(expression, out_tokens[6])).val)))

(***************************************************************************)
(* C25: a binary operator other than '-' whose left or right operand slice *)
(* is empty ('a*', '+a', 'a/', 'a^') makes Evaluate fail with              *)
(* UnexpectedSubexpressionCount at that operator, whatever the value or    *)
(* the evaluation outcome of the operand that is present.                  *)
(***************************************************************************)
\* the operator of a text of one operand and one operator other than '-'
LoneOperator(tokens) ==
  { p \in {0, 1} : /\ Len(tokens) = 2
                   /\ At(tokens, p).kind \in BinaryOpKinds \ {"Sub"}
                   /\ At(tokens, 1 - p).kind \in NumericKinds }

C25_MissingOperandFails ==
  (Done /\ thrown_in # "tokenize") =>
     \A p \in LoneOperator(out_tokens) :
       /\ thrown_in = "evaluate"
       /\ result.err = "UnexpectedSubexpressionCount"
       /\ result.tok = p

(***************************************************************************)
(* C26: the text of every Number token has the form digits, or digits, a   *)
(* point and digits; hence the evaluation of a Number token never fails.   *)
(***************************************************************************)
WellFormedNumber(text) ==
  /\ text # <<>>
  /\ \A i \in 1 .. Len(text) : text[i] \in Digits \cup {"."}
  /\ text[1] \in Digits /\ text[Len(text)] \in Digits
  /\ Cardinality({ i \in 1 .. Len(text) : text[i] = "." }) <= 1

NumberTokens(tokens) == { p \in 0 .. Len(tokens) - 1 : At(tokens, p).kind = "Number" }

C26_NumbersWellFormed ==
  (Done /\ thrown_in # "tokenize") =>
     \A p \in NumberTokens(out_tokens) :
       /\ WellFormedNumber(SourceText(expression, At(out_tokens, p)))
       /\ Number_Evaluate(out_tokens, expression, Leaf(p)).err = "none"
       /\ out_tokens = <<At(out_tokens, p)>> => result.err = "none"

(***************************************************************************)
(* C27: Evaluate terminates on every finite input with a number or an      *)
(* error: each tokenizer round strictly advances the cursor or fails,      *)
(* every pair-matching scan moves strictly forward, and every child slice  *)
(* is strictly shorter than the slice that was split.  The call is run to  *)
(* its end under weak fairness of its steps.                               *)
(***************************************************************************)
\* texts of blanks only, next to short texts that end in each phase
BlankTexts == { <<" ">>, <<"\t">>, <<" ", " ">>, <<" ", "\t">>, <<"\t", " ", " ">> }

LiveTexts ==
  BlankTexts
  \cup { <<>>, <<"x">>, <<"-", "x">>, <<"x", "+", "y">>, <<"x", "/", "y">>, <<"x", "*">>,
         <<"(", "x">>, <<"x", ")">>, <<"|", "x">>, <<"#">>, <<"1", ".", ".">>,
         <<" ", "x", " ">>, <<"x", ",">> }

LiveInputs == LiveTexts \X OrderEnvs

InitLive == InitWith(LiveInputs)

SpecLive == InitLive /\ [][Next]_vars /\ WF_vars(Next)

\* the measures of progress: the cursor in tokenization, the token index in
\* the backpatch pass
TokenizerAdvances ==
  [][(pc = "tokenize" /\ pc' = "tokenize") => cursor' > cursor]_vars

BackpatchAdvances ==
  [][(pc = "backpatch" /\ pc' = "backpatch") => cur_token' > cur_token]_vars

\* every call comes to its end, whatever the end is
EvaluateEnds == <>Done

C27_TerminatesWithNumberOrError ==
  <>(Done /\ result.err # "Crash")

(***************************************************************************)
(* C28: whenever Evaluate returns a number, every token is represented in  *)
(* the tree, as a node or as the closing partner of a node; a text of two  *)
(* adjacent operands without an operator ('1 2') is not accepted.          *)
(***************************************************************************)
RECURSIVE TreeTokens(_)
TreeTokens(node) ==
  {node.tok} \cup UNION { TreeTokens(node.children[i]) : i \in 1 .. Len(node.children) }

\* the nodes of the tree and the partners recorded for the pair tokens among them
Represented(node, cache) ==
  LET nodes == TreeTokens(node)
  IN  nodes \cup { cache[p] : p \in { q \in nodes : At(out_tokens, q).kind \in PairKinds } }

C28_EveryTokenInTree ==
  (Done /\ result.err = "none" /\ out_ast # NoTree) =>
     Represented(out_ast, PairCache) = 0 .. Len(out_tokens) - 1

(***************************************************************************)
(* C29: the one-child negation of '-' applies only when the missing        *)
(* operand is the left one: a '-' whose right slice is empty ('5-') fails  *)
(* with UnexpectedSubexpressionCount and is never evaluated as the         *)
(* negation of its left operand.                                           *)
(***************************************************************************)
\* an operand followed by a '-' that ends the text
TrailingMinus(tokens) ==
  /\ Len(tokens) = 2
  /\ At(tokens, 0).kind \in NumericKinds
  /\ At(tokens, 1).kind = "Sub"

C29_TrailingMinusFails ==
  (Done /\ thrown_in # "tokenize" /\ TrailingMinus(out_tokens)) =>
     /\ thrown_in = "evaluate"
     /\ result.err = "UnexpectedSubexpressionCount"
     /\ result.tok = 1

(***************************************************************************)
(* C30: for a non-empty text of blanks only Evaluate fails with an error,  *)
(* exactly as for the empty text: it never reads the root of an empty tree *)
(* and never returns a number.                                             *)
(***************************************************************************)
OnlyBlanks(text) == text # <<>> /\ \A i \in 1 .. Len(text) : text[i] \in Blanks

C30_BlankTextFailsAsEmpty ==
  /\ (pc = "evaluate" /\ OnlyBlanks(expression)) => out_ast # NoTree
  /\ (Done /\ OnlyBlanks(expression)) =>
       /\ result = RuntimeError("EmptyExpression")
       /\ thrown_in # "evaluate"

=============================================================================
